---- MODULE Spec2Model ----
(***************************************************************************)
(* MergeSummitLayers.processAlgorithm of merge_landserf.py: ingestion of   *)
(* the summit layers, the nearest-neighbour matching pass that chains      *)
(* mutual matches into groups, the aggregation of every group into one     *)
(* feature, and the prominence ranking that assigns the final identifiers. *)
(*                                                                         *)
(* Record indices are 0-based as in the code; TLA+ sequences are 1-based,  *)
(* so record i is element i+1 of summits, smatch and cmatch.               *)
(* Points lie on one line (integer abscissa), so the planar distance of    *)
(* two points is the absolute difference of their abscissae.               *)
(* An unset attribute (QVariant NULL) is the empty tuple.                  *)
(***************************************************************************)
EXTENDS Integers, Sequences, FiniteSets, TLC

VARIABLES layerList, pc, layerPos, summits, sisummit, sicol,
          smatch, cmatch, dmatch, dm, pending, features, fmap, index, sink,
          layers, scanPos, dest_id, canceled, error, topo, topom, chain

vars == <<layerList, pc, layerPos, summits, sisummit, sicol,
          smatch, cmatch, dmatch, dm, pending, features, fmap, index, sink,
          layers, scanPos, dest_id, canceled, error, topo, topom, chain>>

\* the input of the merge run, the sink handle and the host's cancel flag
runVars == <<layers, scanPos, dest_id, canceled>>

\* the states of the two reconciliation algorithms (topo_match.py and
\* topo_match_m.py), which are programs of their own, and of the chaining
\* pass run by itself
otherRuns == <<topo, topom, chain>>

\* ------------------------------------------------------------ bounds
MaxRecords == 3
MaxCoord == 2
Distance == 1

\* ------------------------------------------------- program constants
AnchorNeighbors == 5
SecondaryNeighbors == 20
IdWidth == 4

Tags == <<"SRTM", "ASTER", "ALOS", "TDX", "GLO30">>

NULL == <<>>

\* the state of an algorithm that is not run
Idle == [pc |-> "idle"]

\* ------------------------------------------------------------ helpers
Abs(x) == IF x < 0 THEN -x ELSE x

Dist(p, q) == Abs(p - q)

Range(seq) == {seq[k] : k \in DOMAIN seq}

Min(S) == CHOOSE x \in S : \A y \in S : x <= y

RECURSIVE SortedTuple(_)
\* tuple(sorted(m)) for a set m of record indices
SortedTuple(m) ==
    IF m = {} THEN <<>>
    ELSE LET x == Min(m) IN <<x>> \o SortedTuple(m \ {x})

RECURSIVE SumSeq(_)
SumSeq(seq) == IF seq = <<>> THEN 0 ELSE Head(seq) + SumSeq(Tail(seq))

\* -------------------------------------------------- rational numbers
\* A Python float quotient of two small integers, kept as numerator and
\* (positive) denominator; comparison is by cross-multiplication.
Rat(n, d) == [n |-> n, d |-> d]

RatEq(a, b) == a.n * b.d = b.n * a.d

RatLess(a, b) == a.n * b.d < b.n * a.d

RatGeq(a, b) == ~RatLess(a, b)

\* ------------------------------------------------ QgsSpatialIndex
\* An index is the set of [id, p] entries added to it.
addFeature(si, id, p) == si \cup {[id |-> id, p |-> p]}

RECURSIVE NearestFirst(_, _)
\* the entries of S as a list of ids, nearest to point first (ids break ties)
NearestFirst(S, point) ==
    IF S = {} THEN <<>>
    ELSE LET e == CHOOSE x \in S : \A y \in S :
                      \/ Dist(x.p, point) < Dist(y.p, point)
                      \/ Dist(x.p, point) = Dist(y.p, point) /\ x.id <= y.id
         IN <<e.id>> \o NearestFirst(S \ {e}, point)

\* QgsSpatialIndex.nearestNeighbor(point, neighbors, maxDistance): the
\* `neighbors` nearest entries, every entry as near as the last of them
\* included; with maxDistance > 0 the entries farther than maxDistance are
\* then dropped (maxDistance = 0 means no limit).
Neighbors(si, point, neighbors, maxDistance) ==
    LET nearer(e) == {x \in si : Dist(x.p, point) < Dist(e.p, point)}
        knn == {e \in si : Cardinality(nearer(e)) < neighbors}
    IN IF maxDistance > 0
       THEN {e \in knn : Dist(e.p, point) <= maxDistance}
       ELSE knn

nearestNeighbor(si, point, neighbors, maxDistance) ==
    NearestFirst(Neighbors(si, point, neighbors, maxDistance), point)

\* ------------------------------------------------------ matching pass
\* mutants of the matching pass: the filter on the secondary result left out
\* of line 285; line 285 written as line 286; the closure propagation of
\* line 287 left out; lines 288-289 keeping the tuple a record already has
AnchorOnlyUnfiltered(s, c) == s

AnchorOnlySwapped(s, c) == SelectSeq(c, LAMBDA x : x \notin Range(s))

ChainedDirect(m, dmap) == m

RegroupNewOnly(m, dmap) ==
    [x \in DOMAIN dmap \cup m |->
        IF x \in DOMAIN dmap THEN dmap[x] ELSE SortedTuple(m)]

\* mutant of line 287: the tuple of the lowest member only is taken over
ChainedThroughLowest(m, dmap) ==
    m \cup UNION {Range(dmap[x]) : x \in {y \in m \cap DOMAIN dmap :
                                            \A z \in m \cap DOMAIN dmap : y <= z}}

\* mutant of line 286: the filter on the anchor result left out
SecondaryOnlyUnfiltered(s, c) == c

\* line 284: m = set(x for x in s if x in c)
ConfirmedMatches(s, c) == {x \in Range(s) : x \in Range(c)}

\* line 285: [x for x in s if x not in c]
AnchorOnly(s, c) == SelectSeq(s, LAMBDA x : x \notin Range(c))

\* line 286: [x for x in c if x not in s]
SecondaryOnly(s, c) == SelectSeq(c, LAMBDA x : x \notin Range(s))

\* line 287: m |= set(item for x in m if x in dmatch for item in dmatch[x])
Chained(m, dmap) ==
    m \cup UNION {Range(dmap[x]) : x \in m \cap DOMAIN dmap}

\* lines 288-289: for x in m: dmatch[x] = tuple(sorted(m))
Regroup(m, dmap) ==
    [x \in DOMAIN dmap \cup m |-> IF x \in m THEN SortedTuple(m) ELSE dmap[x]]

\* ------------------------------------------------------- aggregation
\* mutant of line 316: a floor division
ProminenceFloored(e, c, n) == Rat((e - c) \div n, 1)

\* line 316: (e - c) / len(m), a true division
Prominence(e, c, n) == Rat(e - c, n)

\* lines 292-294: meanXY over the points of the members
meanXY(points) == Rat(SumSeq(points), Len(points))

\* lines 298-322: the feature of group m, the members taken in tuple order;
\* a later member overwrites the per-source fields of an earlier one of the
\* same DEM. Merge and Cross still hold raw record indices here.
RECURSIVE AggregateMembers(_, _, _, _, _)
AggregateMembers(m, k, acc, recs, links) ==
    IF k > Len(m) THEN acc
    ELSE LET i == m[k]
             r == recs[i + 1]
         IN AggregateMembers(m, k + 1,
                [acc EXCEPT !.SrcElevation[r.dem] = <<r.Elevation>>,
                            !.SrcColElevation[r.dem] = <<r.ColElevation>>,
                            !.e = @ + r.Elevation,
                            !.c = @ + r.ColElevation,
                            !.ss = @ \o links.s[i + 1],
                            !.cc = @ \o links.c[i + 1]],
                recs, links)

PresentTags(ll) == {Tags[k] : k \in {j \in DOMAIN Tags : ll[Tags[j]] # NULL}}

GroupFeature(m, recs, links, ll) ==
    LET start == [SrcElevation |-> [t \in PresentTags(ll) |-> NULL],
                  SrcColElevation |-> [t \in PresentTags(ll) |-> NULL],
                  e |-> 0, c |-> 0, ss |-> <<>>, cc |-> <<>>]
        acc == AggregateMembers(m, 1, start, recs, links)
        gm == <<meanXY([k \in DOMAIN m |-> recs[m[k] + 1].gs]),
                meanXY([k \in DOMAIN m |-> recs[m[k] + 1].gc])>>
    IN [fid |-> NULL,
        ID |-> NULL,
        Prominence |-> Prominence(acc.e, acc.c, Len(m)),
        Merge |-> acc.ss,
        Cross |-> acc.cc,
        SrcElevation |-> acc.SrcElevation,
        SrcColElevation |-> acc.SrcColElevation,
        geometry |-> <<gm>> \o [k \in DOMAIN m |-> recs[m[k] + 1].g]]

\* ------------------------------------------------------------ ranking
\* mutants of the ranking: an insertion that puts p before the entries of
\* equal key; an ascending sort (reverse=True left out); line 325 left out
InsertDescendingTiesFirst(fs, acc, p) ==
    LET k == Cardinality({j \in DOMAIN acc :
                 RatLess(fs[p + 1].Prominence, fs[acc[j] + 1].Prominence)})
    IN SubSeq(acc, 1, k) \o <<p>> \o SubSeq(acc, k + 1, Len(acc))

RECURSIVE SortAscendingFrom(_, _, _)
SortAscendingFrom(fs, acc, p) ==
    IF p >= Len(fs) THEN acc
    ELSE LET k == Cardinality({j \in DOMAIN acc :
                      ~RatLess(fs[p + 1].Prominence, fs[acc[j] + 1].Prominence)})
         IN SortAscendingFrom(fs,
                SubSeq(acc, 1, k) \o <<p>> \o SubSeq(acc, k + 1, Len(acc)), p + 1)

SortedAscending(fs) == SortAscendingFrom(fs, <<>>, 0)

InversePermutationSkipped(order) == order

\* One insertion of a stable descending sort: provisional index p goes
\* behind every entry whose key is not smaller.
InsertDescending(fs, acc, p) ==
    LET k == Cardinality({j \in DOMAIN acc :
                 RatGeq(fs[acc[j] + 1].Prominence, fs[p + 1].Prominence)})
    IN SubSeq(acc, 1, k) \o <<p>> \o SubSeq(acc, k + 1, Len(acc))

RECURSIVE SortFrom(_, _, _)
SortFrom(fs, acc, p) ==
    IF p >= Len(fs) THEN acc
    ELSE SortFrom(fs, InsertDescending(fs, acc, p), p + 1)

\* line 324: the provisional indices in the order of
\* sorted(enumerate(features), key=Prominence, reverse=True); Python's sort
\* is stable, also with reverse=True.
SortedByProminence(fs) == SortFrom(fs, <<>>, 0)

\* line 325: the inverse permutation, provisional index -> final rank
InversePermutation(order) ==
    [q \in DOMAIN order |-> (CHOOSE r \in DOMAIN order : order[r] = q - 1) - 1]

RECURSIVE DigitsOf(_)
DigitsOf(n) == IF n < 10 THEN <<n>> ELSE DigitsOf(n \div 10) \o <<n % 10>>

RECURSIVE ZeroPad(_, _)
ZeroPad(ds, w) == IF Len(ds) >= w THEN ds ELSE ZeroPad(<<0>> \o ds, w)

\* line 329: f'S{i+1:04}', the letter S and the decimal digits of i+1
\* zero-padded to four
FormatID(i) == <<"S">> \o ZeroPad(DigitsOf(i + 1), IdWidth)

\* lines 330-335: the raw record indices of a Merge/Cross field rewritten to
\* the final IDs of their features; the set drops repeated features. The
\* order of the tokens in the joined string is the set's and is not modelled.
ResolveLinks(raw, fm, idx) ==
    IF raw # <<>>
    THEN {FormatID(idx[fm[x] + 1]) : x \in Range(raw)}
    ELSE {}

RankedFeatures(fs, fm) ==
    LET order == SortedByProminence(fs)
        idx == InversePermutation(order)
    IN [r \in DOMAIN order |->
           LET f == fs[order[r] + 1]
           IN [f EXCEPT !.fid = <<r - 1>>,
                        !.ID = FormatID(r - 1),
                        !.Merge = ResolveLinks(f.Merge, fm, idx),
                        !.Cross = ResolveLinks(f.Cross, fm, idx)]]

\* -------------------------------------------------------------- inputs
Coords == 0 .. MaxCoord

Elevations == {120, 300, 450}

ColElevations == {0, 1}

ElevationCycle == <<120, 450, 300>>

\* an input feature: a polyline from the summit to its col, with the
\* Elevation and Col elevation attributes
InputFeature(e, c, a, s) ==
    [hasGeometry |-> TRUE, Elevation |-> e, ColElevation |-> c, g |-> <<a, s>>]

NoGeometryFeature(e, c) ==
    [hasGeometry |-> FALSE, Elevation |-> e, ColElevation |-> c, g |-> NULL]

\* n features, elevations 120, 450, 300 in turn: every summit position with
\* the col at either end of the line, every col position with the summit at
\* either end of the line, and every summit position with the col at the
\* summit
GeometryInputs(n) ==
    {[k \in 1 .. n |-> InputFeature(ElevationCycle[((k - 1) % 3) + 1], 0,
                                    a[k], s[k])] :
        a \in [1 .. n -> Coords], s \in [1 .. n -> {0, MaxCoord}]}
    \cup
    {[k \in 1 .. n |-> InputFeature(ElevationCycle[((k - 1) % 3) + 1], 0,
                                    a[k], s[k])] :
        a \in [1 .. n -> {0, MaxCoord}], s \in [1 .. n -> Coords]}
    \cup
    {[k \in 1 .. n |-> InputFeature(ElevationCycle[((k - 1) % 3) + 1], 0,
                                    a[k], a[k])] :
        a \in [1 .. n -> Coords]}

\* n features at one place with every elevation pair, and n features each
\* out of reach of the others with every elevation
ElevationInputs(n) ==
    {[k \in 1 .. n |-> InputFeature(e[k], c[k], 0, 0)] :
        e \in [1 .. n -> Elevations], c \in [1 .. n -> ColElevations]}
    \cup
    {[k \in 1 .. n |-> InputFeature(e[k], 0, k * (Distance + 1), k * (Distance + 1))] :
        e \in [1 .. n -> Elevations]}

\* n features at one place, some of them without geometry
PartialInputs(n) ==
    {[k \in 1 .. n |-> IF h[k] THEN InputFeature(e[k], 0, 0, 0)
                                ELSE NoGeometryFeature(e[k], 0)] :
        h \in [1 .. n -> BOOLEAN], e \in [1 .. n -> Elevations]}

\* one feature more than the anchor query returns, every summit position,
\* all cols at one place
CrowdedInputs ==
    {[k \in 1 .. AnchorNeighbors + 1 |->
         InputFeature(ElevationCycle[((k - 1) % 3) + 1], 0, a[k], 0)] :
        a \in [1 .. AnchorNeighbors + 1 -> Coords]}

InputFeatures(n) == GeometryInputs(n) \cup ElevationInputs(n) \cup PartialInputs(n)

\* A layer name is the list of its pieces: a piece is the text of a tag, in
\* upper case or not, or text that holds no tag.
TagText(tag, upper) == [tag |-> tag, upper |-> upper]

OtherText == [tag |-> "", upper |-> FALSE]

\* an input layer: its name and its features
Layer(name, fs) == [name |-> name, features |-> fs]

\* the state of layerList after the first pass over the layers (lines
\* 190-216): the first k features are the SRTM layer's, the others the
\* ASTER layer's; a DEM without layer (None) is NULL, a DEM with a layer
\* holds <<layer>>
LayersOf(fs, k) ==
    [t \in Range(Tags) |->
        IF t = "SRTM" /\ k >= 1
        THEN <<Layer(<<TagText("SRTM", TRUE)>>, SubSeq(fs, 1, k))>>
        ELSE IF t = "ASTER" /\ k < Len(fs)
        THEN <<Layer(<<TagText("ASTER", TRUE)>>, SubSeq(fs, k + 1, Len(fs)))>>
        ELSE NULL]

\* the layers of a layerList in the order of its keys
LayerSeq(ll) ==
    LET present == SelectSeq(Tags, LAMBDA t : ll[t] # NULL)
    IN [k \in DOMAIN present |-> ll[present[k]][1]]

\* the layers n features come in: all in the SRTM layer, or the first in the
\* SRTM layer and the others in the ASTER layer
Splits(n) == {k \in {1, n} : k <= n}

\* ------------------------------------------------------------- actions
Init ==
    /\ \/ \E n \in 0 .. MaxRecords : \E fs \in InputFeatures(n) :
              \E k \in Splits(n) : layerList = LayersOf(fs, k)
       \/ \E fs \in CrowdedInputs : layerList = LayersOf(fs, AnchorNeighbors)
    /\ layers = LayerSeq(layerList)
    /\ scanPos = Len(layers) + 1
    /\ dest_id = <<"OUTPUT">>
    /\ canceled = FALSE
    /\ error = ""
    /\ topo = Idle
    /\ topom = Idle
    /\ chain = Idle
    /\ pc = "ingest"
    /\ layerPos = 1
    /\ summits = <<>>
    /\ sisummit = {}
    /\ sicol = {}
    /\ smatch = <<>>
    /\ cmatch = <<>>
    /\ dmatch = <<>>
    /\ dm = {}
    /\ pending = {}
    /\ features = <<>>
    /\ fmap = <<>>
    /\ index = <<>>
    /\ sink = <<>>

\* lines 258-275: the features of one layer that have a geometry, appended
\* to summits and added to both indexes under the running id
RECURSIVE IngestFeatures(_, _, _)
IngestFeatures(dem, fs, st) ==
    IF fs = <<>> THEN st
    ELSE LET f == Head(fs)
             current == Len(st.summits)
         IN IF ~f.hasGeometry
            THEN IngestFeatures(dem, Tail(fs), st)
            ELSE IngestFeatures(dem, Tail(fs),
                    [summits |-> Append(st.summits,
                                    [dem |-> dem,
                                     Elevation |-> f.Elevation,
                                     ColElevation |-> f.ColElevation,
                                     g |-> f.g,
                                     gs |-> f.g[1],
                                     gc |-> f.g[Len(f.g)]]),
                     sisummit |-> addFeature(st.sisummit, current, f.g[1]),
                     sicol |-> addFeature(st.sicol, current, f.g[Len(f.g)])])

AfterLayer(pos) == IF pos > Len(Tags) THEN "match" ELSE "ingest"

\* lines 254-255: a DEM without layer is passed over
SkipLayer ==
    /\ pc = "ingest"
    /\ ~canceled
    /\ layerList[Tags[layerPos]] = NULL
    /\ layerPos' = layerPos + 1
    /\ pc' = AfterLayer(layerPos')
    /\ UNCHANGED <<layerList, summits, sisummit, sicol, smatch, cmatch,
                   dmatch, dm, pending, features, fmap, index, sink,
                   runVars, error, otherRuns>>

\* lines 257-275: one layer of layerList, in the order of its keys
IngestLayer ==
    /\ pc = "ingest"
    /\ ~canceled
    /\ layerList[Tags[layerPos]] # NULL
    /\ LET st == IngestFeatures(Tags[layerPos], layerList[Tags[layerPos]][1].features,
                     [summits |-> summits, sisummit |-> sisummit, sicol |-> sicol])
       IN /\ summits' = st.summits
          /\ sisummit' = st.sisummit
          /\ sicol' = st.sicol
    /\ layerPos' = layerPos + 1
    /\ pc' = AfterLayer(layerPos')
    /\ UNCHANGED <<layerList, smatch, cmatch, dmatch, dm, pending, features,
                   fmap, index, sink,
                   runVars, error, otherRuns>>

\* lines 281-289: one iteration of the matching loop, for record
\* i = len(smatch)
MatchRecord ==
    /\ pc = "match"
    /\ Len(smatch) < Len(summits)
    /\ LET i == Len(smatch)
           s == nearestNeighbor(sisummit, summits[i + 1].gs, AnchorNeighbors, Distance)
           c == nearestNeighbor(sicol, summits[i + 1].gc, SecondaryNeighbors, Distance)
           m == Chained(ConfirmedMatches(s, c), dmatch)
       IN /\ smatch' = Append(smatch, AnchorOnly(s, c))
          /\ cmatch' = Append(cmatch, SecondaryOnly(s, c))
          /\ dmatch' = Regroup(m, dmatch)
    /\ UNCHANGED <<layerList, pc, layerPos, summits, sisummit, sicol, dm,
                   pending, features, fmap, index, sink,
                   runVars, error, otherRuns>>

\* line 290: dm = set(dmatch.values()), once the loop has ended
CollectGroups ==
    /\ pc = "match"
    /\ Len(smatch) = Len(summits)
    /\ dm' = {dmatch[x] : x \in DOMAIN dmatch}
    /\ pending' = dm'
    /\ pc' = "aggregate"
    /\ UNCHANGED <<layerList, layerPos, summits, sisummit, sicol, smatch,
                   cmatch, dmatch, features, fmap, index, sink,
                   runVars, error, otherRuns>>

\* lines 298-322: one iteration of `for m in dm`; a set of tuples is iterated
\* in an order the program does not fix
AggregateGroup ==
    /\ pc = "aggregate"
    /\ \E m \in pending :
          /\ features' = Append(features,
                 GroupFeature(m, summits, [s |-> smatch, c |-> cmatch], layerList))
          /\ fmap' = [x \in DOMAIN fmap \cup Range(m) |->
                         IF x \in Range(m) THEN Len(features) ELSE fmap[x]]
          /\ pending' = pending \ {m}
    /\ UNCHANGED <<layerList, pc, layerPos, summits, sisummit, sicol, smatch,
                   cmatch, dmatch, dm, index, sink,
                   runVars, error, otherRuns>>

\* lines 324-335: sort, inverse permutation and renaming; with no feature at
\* all, zip(*sorted(enumerate([]))) yields nothing to unpack and the run
\* ends with a ValueError
Rank ==
    /\ pc = "aggregate"
    /\ pending = {}
    /\ \/ /\ features = <<>>
          /\ pc' = "crashed"
          /\ error' = "ValueError"
          /\ UNCHANGED <<features, index>>
       \/ /\ features # <<>>
          /\ index' = InversePermutation(SortedByProminence(features))
          /\ features' = RankedFeatures(features, fmap)
          /\ pc' = "emit"
          /\ UNCHANGED error
    /\ UNCHANGED <<layerList, layerPos, summits, sisummit, sicol, smatch,
                   cmatch, dmatch, dm, pending, fmap, sink,
                   runVars, otherRuns>>

\* line 337: sink.addFeatures(features)
Emit ==
    /\ pc = "emit"
    /\ sink' = features
    /\ pc' = "done"
    /\ UNCHANGED <<layerList, layerPos, summits, sisummit, sicol, smatch,
                   cmatch, dmatch, dm, pending, features, fmap, index,
                   runVars, error, otherRuns>>

Next ==
    \/ SkipLayer
    \/ IngestLayer
    \/ MatchRecord
    \/ CollectGroups
    \/ AggregateGroup
    \/ Rank
    \/ Emit

Spec == Init /\ [][Next]_vars

\* ------------------------------------------- the run from its first line
\* The run as the host starts it: the layers as they are handed over, named
\* by the user, and a host that may cancel while the run is under way.
MaxLayers == 2

\* layer names: no tag; a tag in upper case; a tag in lower case; a tag after
\* other text; two different tags
LayerNames ==
    {<<OtherText>>,
     <<TagText("SRTM", TRUE)>>,
     <<TagText("SRTM", FALSE), OtherText>>,
     <<OtherText, TagText("ASTER", TRUE)>>,
     <<TagText("ASTER", FALSE)>>,
     <<OtherText, TagText("GLO30", TRUE)>>,
     <<TagText("SRTM", FALSE), OtherText, TagText("ASTER", TRUE)>>}

\* the features of a layer: one summit line, one feature without geometry,
\* or none
LayerFeatures ==
    {<<InputFeature(120, 0, 0, 0)>>, <<NoGeometryFeature(120, 0)>>, <<>>}

InputLayers == {Layer(name, fs) : name \in LayerNames, fs \in LayerFeatures}

\* line 209: re.search('SRTM|ASTER|ALOS|TDX|GLO30', name, re.I), the leftmost
\* piece of the name that is the text of a tag, or NULL (None)
search(name) ==
    LET hits == SelectSeq(name, LAMBDA piece : piece.tag # "")
    IN IF hits = <<>> THEN NULL ELSE <<Head(hits)>>

RunInit ==
    /\ \E n \in 0 .. MaxLayers : layers \in [1 .. n -> InputLayers]
    /\ layerList = [t \in Range(Tags) |-> NULL]
    /\ scanPos = 1
    /\ dest_id = NULL
    /\ canceled = FALSE
    /\ error = ""
    /\ topo = Idle
    /\ topom = Idle
    /\ chain = Idle
    /\ pc = "scan"
    /\ layerPos = 1
    /\ summits = <<>>
    /\ sisummit = {}
    /\ sicol = {}
    /\ smatch = <<>>
    /\ cmatch = <<>>
    /\ dmatch = <<>>
    /\ dm = {}
    /\ pending = {}
    /\ features = <<>>
    /\ fmap = <<>>
    /\ index = <<>>
    /\ sink = <<>>

\* the host sets the cancel flag; the run reads it at lines 200 and 251 only
Cancel ==
    /\ pc \in {"scan", "ingest"}
    /\ ~canceled
    /\ canceled' = TRUE
    /\ UNCHANGED <<layerList, pc, layerPos, summits, sisummit, sicol, smatch,
                   cmatch, dmatch, dm, pending, features, fmap, index, sink,
                   layers, scanPos, dest_id, error, otherRuns>>

\* lines 199-216: one layer of the first pass. The tag is m.group(0).upper();
\* the message of line 215 looks the other layer up under m.group(0) as it
\* stands in the name, which is a key of layerList only in upper case.
ScanLayer ==
    /\ pc = "scan"
    /\ ~canceled
    /\ scanPos <= Len(layers)
    /\ LET layer == layers[scanPos]
           m == search(layer.name)
       IN IF m = NULL
          THEN /\ error' = "QgsProcessingException"
               /\ pc' = "failed"
               /\ UNCHANGED <<layerList, scanPos>>
          ELSE IF layerList[m[1].tag] # NULL
          THEN /\ error' = IF m[1].upper THEN "QgsProcessingException"
                                         ELSE "KeyError"
               /\ pc' = "failed"
               /\ UNCHANGED <<layerList, scanPos>>
          ELSE /\ layerList' = [layerList EXCEPT ![m[1].tag] = <<layer>>]
               /\ scanPos' = scanPos + 1
               /\ UNCHANGED <<pc, error>>
    /\ UNCHANGED <<layerPos, summits, sisummit, sicol, smatch, cmatch, dmatch,
                   dm, pending, features, fmap, index, sink,
                   layers, dest_id, canceled, otherRuns>>

\* lines 200-201 and 218-247: the first pass ends, by the break or with the
\* last layer; the per-DEM fields are added and the sink is created
EndScan ==
    /\ pc = "scan"
    /\ canceled \/ scanPos > Len(layers)
    /\ dest_id' = <<"OUTPUT">>
    /\ pc' = "ingest"
    /\ UNCHANGED <<layerList, layerPos, summits, sisummit, sicol, smatch,
                   cmatch, dmatch, dm, pending, features, fmap, index, sink,
                   layers, scanPos, canceled, error, otherRuns>>

\* lines 251-252: the break of the ingestion loop
StopIngest ==
    /\ pc = "ingest"
    /\ canceled
    /\ pc' = "match"
    /\ UNCHANGED <<layerList, layerPos, summits, sisummit, sicol, smatch,
                   cmatch, dmatch, dm, pending, features, fmap, index, sink,
                   runVars, error, otherRuns>>

RunNext ==
    \/ Cancel
    \/ ScanLayer
    \/ EndScan
    \/ StopIngest
    \/ SkipLayer
    \/ IngestLayer
    \/ MatchRecord
    \/ CollectGroups
    \/ AggregateGroup
    \/ Rank
    \/ Emit

RunSpec == RunInit /\ [][RunNext]_vars

\* =================================================== reconciliation
\* topo25match of topo_match.py (algorithm topomatch, by position) and of
\* topo_match_m.py (algorithm topomatchm, by the Match key). An attribute is
\* NULL or <<value>>; a text is the list of its characters, the empty text
\* and NULL alike being <<>>; Notes is the list of the notes joined by '; '.
\* An action marker is the list of its words, so 'switch' in action is a
\* membership test. Reference ids are fixed-width codes, kept as numbers.
MaxInputs == 3
MaxRefs == 2

\* the tolerances of topo_match.py lines 95 and 98 (0.005 and 0.01), in
\* units of 0.005
AnchorTolerance == 1
SecondaryTolerance == 2

Ids == <<"S0001", "S0002", "S0003", "S0004">>

RefNames == <<"Vf. A", "Vf. B", "Vf. C", "Vf. D">>

Digits == <<"0", "1", "2", "3", "4", "5", "6", "7", "8", "9">>

\* str.isdecimal
isdecimal(text) ==
    text # <<>> /\ \A k \in DOMAIN text : text[k] \in Range(Digits)

DigitValue(ch) == (CHOOSE k \in DOMAIN Digits : Digits[k] = ch) - 1

RECURSIVE int(_)
\* int(text) of a decimal text
int(text) ==
    IF text = <<>> THEN 0
    ELSE int(SubSeq(text, 1, Len(text) - 1)) * 10 + DigitValue(text[Len(text)])

\* `if f[...]` on a text attribute and on a number attribute
HasText(v) == v # NULL /\ v # <<"">>

NonZero(v) == v # NULL /\ v[1] # 0

\* a feature of the summit layer
SourceFeature(k, name, e, c, ref, notes, a, s) ==
    [fid |-> <<k - 1>>, ID |-> <<Ids[k]>>, Name |-> name, Elevation |-> e,
     ColElevation |-> c, Reference |-> ref, Notes |-> notes,
     Prominence |-> <<400 + 10 * k>>, g |-> <<a, s>>]

\* a feature of the reference layer
RefFeature(k, action, ele, col, a, s, match) ==
    [hasGeometry |-> TRUE, action |-> action, ref |-> <<100 + k>>,
     name |-> <<RefNames[k]>>, check_ele |-> ele, check_col |-> col,
     g |-> <<a, s>>, Match |-> match]

RefWithoutGeometry(k, action) ==
    [hasGeometry |-> FALSE, action |-> action, ref |-> <<100 + k>>,
     name |-> <<RefNames[k]>>, check_ele |-> <<>>, check_col |-> <<>>,
     g |-> NULL, Match |-> NULL]

Actions == {<<"ok">>, <<"move">>, <<"switch">>, <<"delete">>, <<"check">>}

CheckTexts == {<<>>, <<"9", "8", "0">>, <<"9", "8", "?">>}

\* one summit with every combination of attributes set and unset (0 is a
\* set Elevation), on top of the one reference entry
AttributeSources ==
    {<<SourceFeature(1, name, e, c, ref, notes, 0, 0)>> :
        name \in {NULL, <<"Own">>}, e \in {NULL, <<0>>, <<500>>},
        c \in {NULL, <<0>>, <<100>>}, ref \in {NULL, <<7>>},
        notes \in {NULL, <<<<"old">>>>}}

AttributeReferences ==
    {<<RefFeature(1, action, ele, col, 0, 0, NULL)>> :
        action \in Actions, ele \in CheckTexts, col \in CheckTexts}
    \cup {<<RefWithoutGeometry(1, action)>> : action \in Actions}

\* n summits without attributes, the col at 0: the summit end of the first
\* ones at 0, of the others at 1
PlacedSources(n) ==
    {[k \in 1 .. n |-> SourceFeature(k, NULL, NULL, NULL, NULL, NULL,
                                      IF k <= z THEN 0 ELSE 1, 0)] :
        z \in 0 .. n}

\* where a reference entry lies: on the summit at 0; at 1 with the col at
\* the secondary tolerance; at 1 with the col beyond it; beyond the anchor
\* tolerance with the col at 0
RefPlaces == <<<<0, 0>>, <<1, 2>>, <<1, 3>>, <<2, 0>>>>

\* n reference entries, listed in the order of their places
PlacedReferences(n) ==
    {[k \in 1 .. n |-> RefFeature(k, action[k], <<>>, <<>>,
                                   RefPlaces[place[k]][1],
                                   RefPlaces[place[k]][2], NULL)] :
        action \in [1 .. n -> {<<"ok">>, <<"check">>, <<"switch">>, <<"delete">>}],
        place \in {p \in [1 .. n -> DOMAIN RefPlaces] :
                      \A k \in 1 .. n - 1 : p[k] <= p[k + 1]}}

\* the merge run is not the algorithm run
MergeIdle ==
    /\ layerList = [t \in Range(Tags) |-> NULL]
    /\ pc = "idle"
    /\ layerPos = 1
    /\ summits = <<>>
    /\ sisummit = {}
    /\ sicol = {}
    /\ smatch = <<>>
    /\ cmatch = <<>>
    /\ dmatch = <<>>
    /\ dm = {}
    /\ pending = {}
    /\ features = <<>>
    /\ fmap = <<>>
    /\ index = <<>>
    /\ sink = <<>>
    /\ layers = <<>>
    /\ scanPos = 1
    /\ dest_id = NULL

mergeVars == <<layerList, pc, layerPos, summits, sisummit, sicol, smatch,
               cmatch, dmatch, dm, pending, features, fmap, index, sink,
               layers, scanPos, dest_id>>

\* topo_match.py lines 41-57 and 86-87: the sources and both sinks are there,
\* nothing is indexed or matched yet
TopoStart(source, reference) ==
    [pc |-> "index", source |-> source, reference |-> reference, pos |-> 1,
     summits |-> {}, cols |-> {}, ref_list |-> <<>>, matched |-> {},
     candidate |-> <<>>, notes |-> NULL, sink |-> <<>>, remainder |-> <<>>]

TopoInit ==
    /\ MergeIdle
    /\ topom = Idle
    /\ chain = Idle
    /\ canceled = FALSE
    /\ error = ""
    /\ \/ \E source \in AttributeSources, reference \in AttributeReferences :
              topo = TopoStart(source, reference)
       \/ \E n \in 0 .. MaxInputs, m \in 0 .. MaxRefs :
              \E source \in PlacedSources(n), reference \in PlacedReferences(m) :
                  topo = TopoStart(source, reference)

\* the host sets the cancel flag while the summits are gone through
CancelReconcile ==
    /\ topo.pc = "match" \/ topom.pc = "match"
    /\ ~canceled
    /\ canceled' = TRUE
    /\ UNCHANGED <<mergeVars, error, otherRuns>>

\* mutants: an entry marked 'delete' indexed like the others; the test of
\* line 99 left out; the test of line 103 left out
IndexedWithDeleted(f) == f.hasGeometry

BothEndpointsUnchecked(i, j) == TRUE

SwitchableNever(rf) == FALSE

\* topo_match.py lines 65-70: the reference features that are indexed
Indexed(f) == f.hasGeometry /\ f.action # <<"delete">>

\* line 99: the nearest reference summit is among the nearest reference cols
BothEndpoints(i, j) == i \in j

\* line 103
Switchable(rf) == "switch" \in Range(rf.action)

\* topo_match.py lines 59-84: the reference features that have a geometry
\* and are not marked 'delete', listed and indexed by their first and last
\* vertex under their place in the list
IndexReference ==
    /\ topo.pc = "index"
    /\ LET ref_list == SelectSeq(topo.reference, Indexed)
       IN topo' = [topo EXCEPT
              !.ref_list = ref_list,
              !.summits = {[id |-> k - 1, p |-> ref_list[k].g[1]] :
                              k \in DOMAIN ref_list},
              !.cols = {[id |-> k - 1, p |-> ref_list[k].g[Len(ref_list[k].g)]] :
                           k \in DOMAIN ref_list},
              !.pc = "match"]
    /\ UNCHANGED <<mergeVars, canceled, error, topom, chain>>

\* topo_match.py lines 111-118 and 119-126: an unset Elevation (Col
\* elevation) takes the number a decimal check text spells, and the vertex
\* moves onto the reference's; any other check text becomes a note
OverrideElevation(st, rf) ==
    IF NonZero(st.f.Elevation) \/ rf.check_ele = <<>> THEN st
    ELSE IF isdecimal(rf.check_ele)
    THEN [st EXCEPT !.f.Elevation = <<int(rf.check_ele)>>, !.f.g[1] = rf.g[1]]
    ELSE [st EXCEPT !.notes = Append(@, <<"ele:", rf.check_ele>>)]

OverrideColElevation(st, rf) ==
    IF NonZero(st.f.ColElevation) \/ rf.check_col = <<>> THEN st
    ELSE IF isdecimal(rf.check_col)
    THEN [st EXCEPT !.f.ColElevation = <<int(rf.check_col)>>, !.f.g[2] = rf.g[2]]
    ELSE [st EXCEPT !.notes = Append(@, <<"col:", rf.check_col>>)]

\* topo_match.py lines 101-126: summit f takes over from its reference entry
\* rf; the result is the summit and the notes
Reconciled(f, rf) ==
    LET start == IF Switchable(rf)
                 THEN [f |-> f, notes |-> <<>>]
                 ELSE [f |-> [f EXCEPT !.Reference = rf.ref],
                       notes |-> IF rf.action = <<"ok">> THEN <<>>
                                 ELSE <<rf.action>>]
        named == IF HasText(start.f.Name) THEN start
                 ELSE [start EXCEPT !.f.Name = rf.name]
    IN OverrideColElevation(OverrideElevation(named, rf), rf)

\* lines 130-131
WithProminence(f) ==
    IF NonZero(f.Elevation) /\ NonZero(f.ColElevation)
    THEN [f EXCEPT !.Prominence = <<f.Elevation[1] - f.ColElevation[1]>>]
    ELSE f

\* lines 132-133; notes is <<list>> here
WithNotes(f, notes) ==
    IF notes[1] # <<>> THEN [f EXCEPT !.Notes = notes[1]] ELSE f

\* topo_match.py lines 89-135: one summit. The nearest reference summit is
\* the first of the query's result, any of those equally near. `notes` is
\* assigned in the match branch only: read at line 132 before any summit
\* has matched it is unbound and the run ends with an UnboundLocalError;
\* after a match it still holds the notes of that earlier summit.
ReconcileFeature ==
    /\ topo.pc = "match"
    /\ ~canceled
    /\ topo.pos <= Len(topo.source)
    /\ LET f == topo.source[topo.pos]
           near == {e.id : e \in Neighbors(topo.summits, f.g[1], 1, AnchorTolerance)}
           j == {e.id : e \in Neighbors(topo.cols, f.g[2], 1, SecondaryTolerance)}
       IN IF near = {}
          THEN /\ topo' = [topo EXCEPT !.sink = Append(@, f), !.pos = @ + 1]
               /\ UNCHANGED error
          ELSE \E i \in near :
               IF BothEndpoints(i, j)
               THEN LET r == Reconciled(f, topo.ref_list[i + 1])
                    IN /\ topo' = [topo EXCEPT
                              !.matched = IF Switchable(topo.ref_list[i + 1])
                                          THEN @ ELSE @ \cup {i},
                              !.notes = <<r.notes>>,
                              !.sink = Append(@, WithNotes(WithProminence(r.f),
                                                           <<r.notes>>)),
                              !.pos = @ + 1]
                       /\ UNCHANGED error
               ELSE LET candidate == [x \in DOMAIN topo.candidate \cup {i} |->
                                         IF x = i THEN f.ID ELSE topo.candidate[x]]
                    IN IF topo.notes = NULL
                       THEN /\ topo' = [topo EXCEPT !.candidate = candidate,
                                                    !.pc = "crashed"]
                            /\ error' = "UnboundLocalError"
                       ELSE /\ topo' = [topo EXCEPT
                                   !.candidate = candidate,
                                   !.sink = Append(@, WithNotes(WithProminence(f),
                                                                topo.notes)),
                                   !.pos = @ + 1]
                            /\ UNCHANGED error
    /\ UNCHANGED <<mergeVars, canceled, topom, chain>>

\* topo_match.py lines 90-91 and 137-143: the loop ends, by the break or with
\* the last summit, and every listed reference entry that is not matched
\* goes to the remainder, with the ID of its candidate summit if it has one
BuildRemainder ==
    /\ topo.pc = "match"
    /\ canceled \/ topo.pos > Len(topo.source)
    /\ LET left == SelectSeq([k \in DOMAIN topo.ref_list |-> k - 1],
                       LAMBDA i : i \notin topo.matched)
       IN topo' = [topo EXCEPT
              !.remainder = [k \in DOMAIN left |->
                  [entry |-> topo.ref_list[left[k] + 1],
                   Match |-> IF left[k] \in DOMAIN topo.candidate
                             THEN topo.candidate[left[k]] ELSE NULL]],
              !.pc = "done"]
    /\ UNCHANGED <<mergeVars, canceled, error, topom, chain>>

\* ------------------------------------------------- topo_match_m.py
\* the one reference entry, keyed to the summit and lying off it
KeyedAttributeReferences ==
    {<<RefFeature(1, action, ele, col, 1, 1, <<Ids[1]>>)>> :
        action \in Actions, ele \in CheckTexts, col \in CheckTexts}

\* n reference entries, each without Match or keyed to one of the summits
KeyedReferences(n, inputs) ==
    {[k \in 1 .. n |-> RefFeature(k, action[k], <<>>, <<>>, 1, 1, match[k])] :
        action \in [1 .. n -> {<<"ok">>, <<"move">>, <<"switch">>}],
        match \in [1 .. n -> {NULL} \cup {<<Ids[i]>> : i \in 1 .. inputs}]}

\* n summits without attributes
KeyedSources(n) ==
    [k \in 1 .. n |-> SourceFeature(k, NULL, NULL, NULL, NULL, NULL, 0, 0)]

\* topo_match_m.py lines 40-50 and 55
TopoMStart(source, reference) ==
    [pc |-> "key", source |-> source, reference |-> reference, pos |-> 1,
     refs |-> <<>>, features |-> <<>>, sink |-> <<>>]

TopoMInit ==
    /\ MergeIdle
    /\ topo = Idle
    /\ chain = Idle
    /\ canceled = FALSE
    /\ error = ""
    /\ \/ \E source \in AttributeSources, reference \in KeyedAttributeReferences :
              topom = TopoMStart(source, reference)
       \/ \E n \in 0 .. MaxInputs, m \in 0 .. MaxRefs :
              \E reference \in KeyedReferences(m, n) :
                  topom = TopoMStart(KeyedSources(n), reference)

\* topo_match_m.py line 53: the reference features that have a Match, under
\* it; of several with one Match the last stays
KeyReference ==
    /\ topom.pc = "key"
    /\ LET reference == topom.reference
           keyed == {k \in DOMAIN reference : reference[k].Match # NULL}
           keys == {reference[k].Match[1] : k \in keyed}
       IN topom' = [topom EXCEPT
              !.refs = [id \in keys |->
                  reference[CHOOSE k \in keyed :
                      /\ reference[k].Match[1] = id
                      /\ \A k2 \in keyed : reference[k2].Match[1] = id => k2 <= k]],
              !.pc = "match"]
    /\ UNCHANGED <<mergeVars, canceled, error, topo, chain>>

\* topo_match_m.py lines 73-80 and 82-89: as in topo_match.py, but the vertex
\* moves onto the reference's for every check text, decimal or not
OverrideElevationByKey(st, rf) ==
    IF NonZero(st.f.Elevation) \/ rf.check_ele = <<>> THEN st
    ELSE IF isdecimal(rf.check_ele)
    THEN [st EXCEPT !.f.Elevation = <<int(rf.check_ele)>>, !.f.g[1] = rf.g[1]]
    ELSE [st EXCEPT !.notes = Append(@, <<"ele:", rf.check_ele>>),
                    !.f.g[1] = rf.g[1]]

OverrideColElevationByKey(st, rf) ==
    IF NonZero(st.f.ColElevation) \/ rf.check_col = <<>> THEN st
    ELSE IF isdecimal(rf.check_col)
    THEN [st EXCEPT !.f.ColElevation = <<int(rf.check_col)>>, !.f.g[2] = rf.g[2]]
    ELSE [st EXCEPT !.notes = Append(@, <<"col:", rf.check_col>>),
                    !.f.g[2] = rf.g[2]]

\* topo_match_m.py lines 62-92
ReconciledByKey(f, rf) ==
    LET start == IF "move" \in Range(rf.action)
                 THEN [f |-> f, notes |-> <<>>]
                 ELSE [f |-> [f EXCEPT !.Reference = rf.ref],
                       notes |-> IF rf.action \in {<<"ok">>, <<"move">>} THEN <<>>
                                 ELSE <<rf.action>>]
        named == IF HasText(start.f.Name) THEN start
                 ELSE [start EXCEPT !.f.Name = rf.name]
        st == OverrideColElevationByKey(OverrideElevationByKey(named, rf), rf)
    IN WithNotes(st.f, <<st.notes>>)

\* topo_match_m.py lines 57-97: one summit
ReconcileByKey ==
    /\ topom.pc = "match"
    /\ ~canceled
    /\ topom.pos <= Len(topom.source)
    /\ LET f == topom.source[topom.pos]
           g == IF f.ID[1] \in DOMAIN topom.refs
                THEN ReconciledByKey(f, topom.refs[f.ID[1]])
                ELSE f
       IN topom' = [topom EXCEPT !.features = Append(@, WithProminence(g)),
                                 !.pos = @ + 1]
    /\ UNCHANGED <<mergeVars, canceled, error, topo, chain>>

\* the key of line 99: (0, Reference) for a summit with Reference, otherwise
\* (1, -Prominence)
SortKey(f) ==
    IF f.Reference # NULL THEN <<0, f.Reference[1]>> ELSE <<1, -f.Prominence[1]>>

KeyLess(a, b) == a[1] < b[1] \/ (a[1] = b[1] /\ a[2] < b[2])

RECURSIVE SortByKey(_, _)
\* list.sort: the features from the p-th on inserted, each behind every
\* feature whose key is not greater
SortByKey(fs, acc) ==
    IF fs = <<>> THEN acc
    ELSE LET f == Head(fs)
             k == Cardinality({q \in DOMAIN acc :
                      ~KeyLess(SortKey(f), SortKey(acc[q]))})
         IN SortByKey(Tail(fs),
                SubSeq(acc, 1, k) \o <<f>> \o SubSeq(acc, k + 1, Len(acc)))

\* topo_match_m.py lines 58-59 and 99-105: the loop ends, by the break or
\* with the last summit; the summits gone through are sorted, numbered and
\* written
SortAndWrite ==
    /\ topom.pc = "match"
    /\ canceled \/ topom.pos > Len(topom.source)
    /\ LET sorted == SortByKey(topom.features, <<>>)
           numbered == [k \in DOMAIN sorted |-> [sorted[k] EXCEPT !.fid = <<k - 1>>]]
       IN topom' = [topom EXCEPT !.features = numbered, !.sink = numbered,
                                 !.pc = "done"]
    /\ UNCHANGED <<mergeVars, canceled, error, topo, chain>>

ReconcileNext ==
    \/ CancelReconcile
    \/ IndexReference
    \/ ReconcileFeature
    \/ BuildRemainder
    \/ KeyReference
    \/ ReconcileByKey
    \/ SortAndWrite

\* one run of one of the two algorithms
ReconcileInit == TopoInit \/ TopoMInit

ReconcileSpec == ReconcileInit /\ [][ReconcileNext]_vars

\* ------------------------------------- the chaining pass by itself
\* The per-record sets of confirmed matches that line 284 can build for n
\* records: with a positive distance and no more than AnchorNeighbors
\* records at one place, a record is returned by both of its own queries.
MatchSets(n) ==
    {m \in [0 .. n - 1 -> SUBSET (0 .. n - 1)] : \A i \in 0 .. n - 1 : i \in m[i]}

\* lines 278-280, the loop not yet entered
ChainInit ==
    /\ MergeIdle
    /\ topo = Idle
    /\ topom = Idle
    /\ canceled = FALSE
    /\ error = ""
    /\ \E n \in 0 .. MaxRecords : \E m \in MatchSets(n) :
           chain = [pc |-> "match", m |-> m, order |-> <<>>,
                    dmatch |-> <<>>, dm |-> {}]

\* lines 284 and 287-289 for one record: the body of the matching loop,
\* applied to the records in any order
ChainRecord ==
    /\ chain.pc = "match"
    /\ \E i \in DOMAIN chain.m \ Range(chain.order) :
           chain' = [chain EXCEPT
               !.dmatch = Regroup(Chained(chain.m[i], chain.dmatch), chain.dmatch),
               !.order = Append(chain.order, i)]
    /\ UNCHANGED <<mergeVars, canceled, error, topo, topom>>

\* line 290: dm = set(dmatch.values())
CollectChain ==
    /\ chain.pc = "match"
    /\ Range(chain.order) = DOMAIN chain.m
    /\ chain' = [chain EXCEPT
           !.dm = {chain.dmatch[x] : x \in DOMAIN chain.dmatch},
           !.pc = "done"]
    /\ UNCHANGED <<mergeVars, canceled, error, topo, topom>>

ChainNext ==
    \/ ChainRecord
    \/ CollectChain

ChainSpec == ChainInit /\ [][ChainNext]_vars

\* ---------------------------------------------------------- properties
Records == 0 .. Len(summits) - 1

\* the matching loop has ended and dm is built; dmatch, dm, smatch and cmatch
\* stay as they are from here on
Grouped == pc = "aggregate" /\ features = <<>>

Ranked == pc \in {"emit", "done"}

\* the ids the anchor query issued for record i returns
AnchorQuery(i) ==
    {e.id : e \in Neighbors(sisummit, summits[i + 1].gs, AnchorNeighbors, Distance)}

\* the ids the secondary query issued for record i returns
SecondaryQuery(i) ==
    {e.id : e \in Neighbors(sicol, summits[i + 1].gc, SecondaryNeighbors, Distance)}

\* the ids both queries issued for record i return
BothQueries(i) == AnchorQuery(i) \cap SecondaryQuery(i)

\* the confirmed matches as pairs <<i, j>>: j is returned by both queries
\* issued for i
MatchPairs == UNION {{<<i, j>> : j \in BothQueries(i)} : i \in Records}

\* i and j are tied by a confirmed match found for either of them
Tied(i, j, pairs) == <<i, j>> \in pairs \/ <<j, i>> \in pairs

RECURSIVE Closure(_, _)
\* the records a chain of confirmed matches connects to those of S
Closure(S, pairs) ==
    LET T == {x : x \in S \cup {q[2] : q \in {r \in pairs : r[1] \in S}}
                           \cup {q[1] : q \in {r \in pairs : r[2] \in S}}}
    IN IF T \subseteq S THEN S ELSE Closure(T, pairs)

Component(i, pairs) == Closure({i}, pairs)

\* C1: once the matching loop has ended, the groups partition the record
\* indices 0..N-1: every group is a non-empty set of record indices, every
\* record lies in exactly one group, and a record tied to no other record
\* forms the singleton group.
C1_GroupsPartitionRecords ==
    Grouped =>
        \A pairs \in {{q : q \in MatchPairs}} :
            /\ \A m \in dm : m # <<>> /\ Range(m) \subseteq Records
            /\ \A i \in Records : Cardinality({m \in dm : i \in Range(m)}) = 1
            /\ \A i \in Records :
                   (\A j \in Records \ {i} : ~Tied(i, j, pairs)) => <<i>> \in dm

C1_Witness ==
    /\ Grouped
    /\ Len(summits) = 3
    /\ \E m \in dm : Len(m) = 1
    /\ \E m \in dm : Len(m) = 2

C3_MatchSymmetric ==
    pc = "match" =>
        \A i, j \in Records : j \in BothQueries(i) <=> i \in BothQueries(j)

\* ---------------------------------------------- the output, read back
\* the token the letter S and the four decimal digits of n make
Token(n) == <<"S", (n \div 1000) % 10, (n \div 100) % 10, (n \div 10) % 10, n % 10>>

Provisional == 0 .. Len(features) - 1

\* the records whose group became the feature built p-th (0-based)
MembersOf(p) == {i \in DOMAIN fmap : fmap[i] = p}

RECURSIVE SumOver(_, _)
SumOver(S, val) ==
    IF S = {} THEN 0
    ELSE LET x == CHOOSE y \in S : TRUE IN val[x + 1] + SumOver(S \ {x}, val)

Drops == [k \in DOMAIN summits |-> summits[k].Elevation - summits[k].ColElevation]

\* the exact average drop (elevation minus col elevation) of a set of records
AverageDrop(S) == Rat(SumOver(S, Drops), Cardinality(S))

RECURSIVE DropsUpTo(_)
DropsUpTo(n) ==
    IF n = 0 THEN <<>>
    ELSE Append(DropsUpTo(n - 1), AverageDrop(MembersOf(n - 1)))

\* the average drops of the features in construction order
GroupDrops == DropsUpTo(Len(features))

\* the place the feature built p-th takes when the features are ordered by
\* descending average drop, construction order kept among equals
RankOf(p, drops) ==
    Cardinality({q \in Provisional : RatLess(drops[p + 1], drops[q + 1])})
    + Cardinality({q \in Provisional : q < p /\ RatEq(drops[p + 1], drops[q + 1])})

Occurrences(seq, x) == Cardinality({k \in DOMAIN seq : seq[k] = x})

\* the records the members of S link to, by the lists of `links`
LinkedFrom(S, links) == UNION {Range(links[i + 1]) : i \in S}

\* records i and j lie within the tolerance of each other at both ends and
\* no other record lies within the tolerance of either at any end
LonePair(i, j) ==
    /\ i # j
    /\ Dist(summits[i + 1].gs, summits[j + 1].gs) <= Distance
    /\ Dist(summits[i + 1].gc, summits[j + 1].gc) <= Distance
    /\ \A k \in Records \ {i, j} : \A x \in {i, j} :
           /\ Dist(summits[k + 1].gs, summits[x + 1].gs) > Distance
           /\ Dist(summits[k + 1].gc, summits[x + 1].gc) > Distance

\* C4: two records of different DEMs within the tolerance of each other at
\* the anchor and at the secondary, with no other neighbour, end as one
\* emitted feature that is theirs alone, holds the Elevation and Col
\* elevation of both under their DEMs and has neither Merge nor Cross.
C4_LonePairMergedClean ==
    pc = "done" =>
        \A i, j \in Records :
            (LonePair(i, j) /\ summits[i + 1].dem # summits[j + 1].dem) =>
                /\ fmap[i] = fmap[j]
                /\ MembersOf(fmap[i]) = {i, j}
                /\ Len(sink) = Cardinality(dm)
                /\ \A f \in {sink[RankOf(fmap[i], GroupDrops) + 1]} :
                       /\ \A x \in {i, j} :
                              /\ f.SrcElevation[summits[x + 1].dem]
                                     = <<summits[x + 1].Elevation>>
                              /\ f.SrcColElevation[summits[x + 1].dem]
                                     = <<summits[x + 1].ColElevation>>
                       /\ f.Merge = {}
                       /\ f.Cross = {}

C4_Witness ==
    /\ pc = "done"
    /\ \E i, j \in Records :
           /\ LonePair(i, j)
           /\ summits[i + 1].dem # summits[j + 1].dem
           /\ summits[i + 1].gs # summits[j + 1].gs
           /\ summits[i + 1].gc # summits[j + 1].gc

\* record j is within the tolerance of record i at the anchor and not at
\* the secondary
AnchorNearOnly(i, j) ==
    /\ i # j
    /\ Dist(summits[i + 1].gs, summits[j + 1].gs) <= Distance
    /\ Dist(summits[i + 1].gc, summits[j + 1].gc) > Distance

C6_ProminenceIsExactAverage ==
    /\ pc = "aggregate" =>
           \A p \in Provisional :
               /\ SortedTuple(MembersOf(p)) \in dm
               /\ RatEq(features[p + 1].Prominence, AverageDrop(MembersOf(p)))
    /\ Ranked =>
           \A drops \in {GroupDrops} : \A p \in Provisional :
               /\ SortedTuple(MembersOf(p)) \in dm
               /\ RatEq(features[RankOf(p, drops) + 1].Prominence, drops[p + 1])

C6_Witness ==
    /\ pc = "done"
    /\ \E r \in DOMAIN sink :
           /\ Len(sink[r].geometry) = 3
           /\ sink[r].Prominence.n % sink[r].Prominence.d # 0

\* the construction-order number of the feature at output place r (0-based)
ProvisionalOf(r) == (CHOOSE q \in DOMAIN index : index[q] = r) - 1

\* C7: the features are in descending order of Prominence, features of equal
\* Prominence in the order of their construction, and sorting them again
\* leaves them in place.
C7_SortedDescendingStable ==
    Ranked =>
        /\ \A r1, r2 \in DOMAIN features :
               r1 < r2 =>
                   /\ RatGeq(features[r1].Prominence, features[r2].Prominence)
                   /\ RatEq(features[r1].Prominence, features[r2].Prominence)
                          => ProvisionalOf(r1 - 1) < ProvisionalOf(r2 - 1)
        /\ SortedByProminence(features) = [r \in DOMAIN features |-> r - 1]

C7_Witness ==
    /\ pc = "done"
    /\ \E r1, r2, r3 \in DOMAIN sink :
           /\ r1 < r2
           /\ RatEq(sink[r1].Prominence, sink[r2].Prominence)
           /\ ~RatEq(sink[r1].Prominence, sink[r3].Prominence)
           /\ ProvisionalOf(r1 - 1) # r1 - 1

\* C8: after ranking the feature at place r has fid r and ID S<r+1 padded to
\* four digits>, index maps construction order to place, and the Merge and
\* Cross of a feature hold exactly the final IDs of the features of the
\* records its members link to, all of them IDs of features of the output.
C8_FinalIdsAndResolvedLinks ==
    Ranked =>
        \A drops \in {GroupDrops} :
            /\ \A r \in DOMAIN features :
                   /\ features[r].fid = <<r - 1>>
                   /\ features[r].ID = Token(r)
                   /\ features[r].Merge \cup features[r].Cross
                          \subseteq {features[x].ID : x \in DOMAIN features}
            /\ \A p \in Provisional :
                   /\ index[p + 1] = RankOf(p, drops)
                   /\ features[RankOf(p, drops) + 1].Merge
                          = {Token(RankOf(fmap[x], drops) + 1) :
                                x \in LinkedFrom(MembersOf(p), smatch)}
                   /\ features[RankOf(p, drops) + 1].Cross
                          = {Token(RankOf(fmap[x], drops) + 1) :
                                x \in LinkedFrom(MembersOf(p), cmatch)}

C8_Witness ==
    /\ pc = "done"
    /\ Len(sink) = 3
    /\ \E q \in DOMAIN index : index[index[q] + 1] # q - 1
    /\ \E r \in DOMAIN sink : sink[r].Merge # {} /\ sink[r].ID \notin sink[r].Merge

\* C9: no emitted feature has its own ID in its Merge or its Cross.
C9_NoSelfReference ==
    pc = "done" =>
        \A r \in DOMAIN sink : sink[r].ID \notin sink[r].Merge \cup sink[r].Cross

\* three records, each a group of its own, with drops 120, 450 and 300
ThreeSingles ==
    /\ Len(summits) = 3
    /\ Len(sink) = 3
    /\ {Drops[k] : k \in DOMAIN summits} = {120, 450, 300}

HasId(drop, n) ==
    \A r \in DOMAIN sink :
        RatEq(sink[r].Prominence, Rat(drop, 1)) => sink[r].ID = Token(n)

\* C10 as stated: the groups of prominence 120, 450 and 300 get the final
\* identifiers 2, 1 and 3.
C10_IdsTwoOneThree ==
    (pc = "done" /\ ThreeSingles) =>
        HasId(120, 2) /\ HasId(450, 1) /\ HasId(300, 3)

\* C10 amended: the groups of prominence 120, 450 and 300 get the final
\* identifiers 3, 1 and 2, the tokens S0003, S0001 and S0002.
C10_IdsThreeOneTwo ==
    (pc = "done" /\ ThreeSingles) =>
        /\ HasId(120, 3) /\ HasId(450, 1) /\ HasId(300, 2)
        /\ {sink[r].ID : r \in DOMAIN sink}
               = {<<"S", 0, 0, 0, 1>>, <<"S", 0, 0, 0, 2>>, <<"S", 0, 0, 0, 3>>}

C10_Witness ==
    /\ pc = "done"
    /\ ThreeSingles
    /\ \E r \in DOMAIN sink : ProvisionalOf(r - 1) # r - 1

\* ------------------------------------------------ the first pass (names)
\* the tags whose text the name holds
TagsIn(name) == {name[k].tag : k \in DOMAIN name} \ {""}

\* layer k cannot be registered: its name holds no tag, or an earlier layer
\* has the tag the name is read as
Unregistrable(k) ==
    \/ TagsIn(layers[k].name) = {}
    \/ \E j \in 1 .. k - 1 :
           /\ TagsIn(layers[j].name) # {}
           /\ search(layers[j].name)[1].tag = search(layers[k].name)[1].tag

\* C11: when the first pass comes to a layer whose name holds no tag, or
\* whose tag an earlier layer has, the run ends with a
\* QgsProcessingException, the sink is never created and nothing is emitted.
C11_BadLayerNameRaisesConfigError ==
    \A k \in DOMAIN layers :
        (Unregistrable(k) /\ scanPos = k /\ ~canceled /\ pc # "scan") =>
            /\ pc = "failed"
            /\ error = "QgsProcessingException"
            /\ dest_id = NULL
            /\ sink = <<>>

\* C19: a layer whose name holds two different tags is never registered
\* under one of them.
C19_AmbiguousNameRejected ==
    \A k \in DOMAIN layers :
        Cardinality(TagsIn(layers[k].name)) > 1 =>
            \A t \in Range(Tags) : layerList[t] # <<layers[k]>>

\* C18 (merge run): once the host has cancelled, the run ends without an
\* error, and what it emits is ranked features with final IDs.
C18_CancelEndsCleanly ==
    canceled =>
        /\ error = ""
        /\ pc # "crashed"
        /\ \A r \in DOMAIN sink :
               /\ sink[r].ID = Token(r)
               /\ sink[r].fid = <<r - 1>>

\* ------------------------------------------------- the per-source fields
\* the feature of the output that record i went into
FeatureOf(i) == sink[index[fmap[i] + 1] + 1]

\* C13: every member's elevation pair is on its feature under the member's
\* DEM, no two members of a feature are of one DEM, and the feature has one
\* member geometry part per populated DEM.
C13_SourceFieldsNeverOverwritten ==
    pc = "done" =>
        /\ \A i \in Records :
               /\ FeatureOf(i).SrcElevation[summits[i + 1].dem]
                      = <<summits[i + 1].Elevation>>
               /\ FeatureOf(i).SrcColElevation[summits[i + 1].dem]
                      = <<summits[i + 1].ColElevation>>
        /\ \A i, j \in Records :
               (i # j /\ fmap[i] = fmap[j]) => summits[i + 1].dem # summits[j + 1].dem
        /\ \A r \in DOMAIN sink :
               Len(sink[r].geometry) - 1
                   = Cardinality({t \in DOMAIN sink[r].SrcElevation :
                                     sink[r].SrcElevation[t] # NULL})

\* ------------------------------------------------- the two query results
\* the records the matching loop has processed
Processed == 0 .. Len(smatch) - 1

\* C20: for every processed record i, with s and c the results of its anchor
\* and secondary queries: the anchor-only list holds exactly s minus c and
\* the secondary-only list exactly c minus s, each record once; the confirmed
\* matches are exactly s intersect c (the records in dmatch are those some
\* processed record confirmed, and i's tuple holds all of its own); the three
\* sets are disjoint and cover s and c; and the Merge and Cross of a built
\* feature collect the lists of its members.
C20_QueriesSplitThreeWays ==
    /\ (pc = "match" \/ Grouped) =>
           /\ \A i \in Processed :
                  \A s \in {{x : x \in AnchorQuery(i)}} :
                  \A c \in {{x : x \in SecondaryQuery(i)}} :
                      /\ Range(smatch[i + 1]) = s \ c
                      /\ Range(cmatch[i + 1]) = c \ s
                      /\ Len(smatch[i + 1]) = Cardinality(s \ c)
                      /\ Len(cmatch[i + 1]) = Cardinality(c \ s)
                      /\ s \cap c \subseteq Range(dmatch[i])
                      /\ Range(smatch[i + 1]) \cap Range(cmatch[i + 1]) = {}
                      /\ Range(smatch[i + 1]) \cap (s \cap c) = {}
                      /\ Range(cmatch[i + 1]) \cap (s \cap c) = {}
                      /\ Range(smatch[i + 1]) \cup Range(cmatch[i + 1]) \cup (s \cap c)
                             = s \cup c
           /\ DOMAIN dmatch = UNION {BothQueries(i) : i \in Processed}
    /\ (pc = "aggregate" /\ pending = {}) =>
           \A p \in Provisional :
               /\ Range(features[p + 1].Merge) = LinkedFrom(MembersOf(p), smatch)
               /\ Range(features[p + 1].Cross) = LinkedFrom(MembersOf(p), cmatch)

C20_Witness ==
    /\ Grouped
    /\ \E i \in Records :
           /\ smatch[i + 1] # <<>>
           /\ cmatch[i + 1] # <<>>
           /\ i \in BothQueries(i)

\* ------------------------------------------- reconciliation, read back
\* the summits topo_match.py has written, in the order of the source
Written == IF topo.pc = "idle" THEN {} ELSE DOMAIN topo.sink

\* the places of the reference list
RefPlacesOf == 0 .. Len(topo.ref_list) - 1

\* reference entry i is within the anchor tolerance of summit f and no
\* reference entry is nearer to it
NearestAnchor(i, f) ==
    /\ Dist(topo.ref_list[i + 1].g[1], f.g[1]) <= AnchorTolerance
    /\ \A x \in RefPlacesOf :
           Dist(topo.ref_list[x + 1].g[1], f.g[1])
               >= Dist(topo.ref_list[i + 1].g[1], f.g[1])

\* the same at the col, with the secondary tolerance
NearestSecondary(i, f) ==
    /\ Dist(topo.ref_list[i + 1].g[2], f.g[2]) <= SecondaryTolerance
    /\ \A x \in RefPlacesOf :
           Dist(topo.ref_list[x + 1].g[2], f.g[2])
               >= Dist(topo.ref_list[i + 1].g[2], f.g[2])

\* reference entry i is the one nearest reference summit of f
OnlyNearestAnchor(i, f) ==
    /\ NearestAnchor(i, f)
    /\ \A x \in RefPlacesOf \ {i} : ~NearestAnchor(x, f)

\* the summit topo_match_m.py has written for the k-th of the source
WrittenByKey(k) ==
    CHOOSE f \in Range(topom.features) : f.ID = topom.source[k].ID

\* the attributes the reconciliation is to fill
Kept(before, after) ==
    /\ before.Name # NULL => after.Name = before.Name
    /\ before.Elevation # NULL => after.Elevation = before.Elevation
    /\ before.ColElevation # NULL => after.ColElevation = before.ColElevation
    /\ before.Reference # NULL => after.Reference = before.Reference
    /\ before.Notes # NULL => after.Notes = before.Notes

\* C12: in both modes an attribute (Name, Elevation, Col elevation,
\* Reference, Notes) that holds a value on the input summit holds the same
\* value on the summit written.
C12_PresentValuesKept ==
    /\ \A k \in Written : Kept(topo.source[k], topo.sink[k])
    /\ topom.pc \in {"match", "done"} =>
           \A k \in 1 .. topom.pos - 1 : Kept(topom.source[k], WrittenByKey(k))

BacksSummit(i, k) ==
    /\ OnlyNearestAnchor(i, topo.source[k])
    /\ NearestSecondary(i, topo.source[k])

\* the summit written has taken what it lacked from reference entry rf, and
\* not its ref
SuppliedNotRefed(before, after, rf) ==
    /\ before.Name = NULL => after.Name = rf.name
    /\ (before.Elevation = NULL /\ rf.check_ele = <<"9", "8", "0">>)
           => after.Elevation = <<980>>
    /\ (before.ColElevation = NULL /\ rf.check_col = <<"9", "8", "0">>)
           => after.ColElevation = <<980>>
    /\ after.Reference = before.Reference

\* the rows of the remainder that hold reference feature rf
RemainderRows(rf) ==
    {x \in DOMAIN topo.remainder : topo.remainder[x].entry = rf}

\* no 'switch' entry is in `matched`, and every summit such an entry backs
\* has taken Name, Elevation and Col elevation from it
SwitchSuppliesOnly ==
    /\ \A i \in topo.matched : "switch" \notin Range(topo.ref_list[i + 1].action)
    /\ \A k \in Written : \A i \in RefPlacesOf :
           (BacksSummit(i, k) /\ "switch" \in Range(topo.ref_list[i + 1].action)) =>
               SuppliedNotRefed(topo.source[k], topo.sink[k], topo.ref_list[i + 1])

C16_MoveSwitchKeepReference ==
    /\ \A k \in Written : \A i \in RefPlacesOf :
           (BacksSummit(i, k)
            /\ Range(topo.ref_list[i + 1].action) \cap {"move", "switch"} # {}) =>
               topo.sink[k].Reference = topo.source[k].Reference
    /\ topom.pc \in {"match", "done"} =>
           \A k \in 1 .. topom.pos - 1 :
               (/\ topom.source[k].ID[1] \in DOMAIN topom.refs
                /\ Range(topom.refs[topom.source[k].ID[1]].action)
                       \cap {"move", "switch"} # {}) =>
                   WrittenByKey(k).Reference = topom.source[k].Reference

\* the rows of the reference layer that the index of topo_match.py takes
IndexedRows ==
    {r \in DOMAIN topo.reference :
        /\ topo.reference[r].hasGeometry
        /\ topo.reference[r].action # <<"delete">>}

\* the place in the reference list of the indexed row r
PlaceOf(r) == Cardinality({q \in IndexedRows : q < r})

\* the written summits that have reference entry i among their nearest
\* reference summits and not nearest at the col
Cands(i) ==
    {k \in Written : NearestAnchor(i, topo.source[k])
                        /\ ~NearestSecondary(i, topo.source[k])}

\* those of them that have no other reference summit as near
Sure(i) == {k \in Cands(i) : OnlyNearestAnchor(i, topo.source[k])}

\* the remainder holds the indexed rows that are not matched, each once, and
\* no row flagged 'delete' has given its ref or name to a written summit
RemainderIsUnmatchedIndexed ==
    /\ \A r \in DOMAIN topo.reference :
           Cardinality(RemainderRows(topo.reference[r]))
               = IF r \in IndexedRows /\ PlaceOf(r) \notin topo.matched
                 THEN 1 ELSE 0
    /\ Len(topo.remainder)
           = Cardinality({r \in IndexedRows : PlaceOf(r) \notin topo.matched})
    /\ \A r \in DOMAIN topo.reference : \A k \in Written :
           topo.reference[r].action = <<"delete">> =>
               /\ topo.sink[k].Reference # topo.reference[r].ref
               /\ topo.sink[k].Name # topo.reference[r].name

RECURSIVE ChainedUpTo(_, _)
\* dmatch after the loop of lines 281-289 has gone through records 0 .. k-1
\* of the match sets m in the order of the code
ChainedUpTo(m, k) ==
    IF k = 0 THEN <<>>
    ELSE LET before == ChainedUpTo(m, k - 1)
         IN Regroup(Chained(m[k - 1], before), before)

\* the groups the loop builds in the order of the code
GroupsInOrder(m) ==
    LET d == ChainedUpTo(m, Cardinality(DOMAIN m))
    IN {d[x] : x \in DOMAIN d}

\* C21: for fixed per-record sets of confirmed matches, the chaining pass
\* run over the records in any order ends with the groups it ends with in
\* the order 0 .. N-1, and these partition the records.
C21_GroupingOrderInsensitive ==
    chain.pc = "done" =>
        /\ chain.dm = GroupsInOrder(chain.m)
        /\ \A i \in DOMAIN chain.m :
               Cardinality({g \in chain.dm : i \in Range(g)}) = 1

\* a run in another order than the code's, where a record is chained into a
\* group through a record it does not match itself
C21_Witness ==
    /\ chain.pc = "done"
    /\ chain.order # SortedTuple(DOMAIN chain.m)
    /\ \E g \in chain.dm : \E i, j \in Range(g) :
           /\ i # j
           /\ j \notin chain.m[i]
           /\ i \notin chain.m[j]

\* the notes of a summit, as a set
NotesOf(f) == IF f.Notes = NULL THEN {} ELSE Range(f.Notes)

\* the written summit `after` has the override text of its reference entry
\* applied to the attribute it lacked: the number, or the note beside the
\* notes it had
OverrideApplied(lacked, text, tag, value, before, after) ==
    (lacked /\ text # <<>>) =>
        IF isdecimal(text)
        THEN value = <<int(text)>>
        ELSE /\ value = NULL
             /\ <<tag, text>> \in NotesOf(after)
             /\ NotesOf(before) \subseteq NotesOf(after)

OverridesApplied(before, after, rf) ==
    /\ OverrideApplied(before.Elevation = NULL, rf.check_ele, "ele:",
                       after.Elevation, before, after)
    /\ OverrideApplied(before.ColElevation = NULL, rf.check_col, "col:",
                       after.ColElevation, before, after)

\* C22: in both modes a matched summit that lacks Elevation (Col elevation)
\* and whose reference entry has an override text gets the number if the
\* text is all decimal digits; otherwise the attribute stays unset and the
\* note 'ele:<text>' ('col:<text>') joins the notes the summit already had.
C22_OverrideTextApplied ==
    /\ \A k \in Written : \A i \in RefPlacesOf :
           BacksSummit(i, k) =>
               OverridesApplied(topo.source[k], topo.sink[k], topo.ref_list[i + 1])
    /\ topom.pc \in {"match", "done"} =>
           \A k \in 1 .. topom.pos - 1 :
               topom.source[k].ID[1] \in DOMAIN topom.refs =>
                   OverridesApplied(topom.source[k], WrittenByKey(k),
                                    topom.refs[topom.source[k].ID[1]])

\* the k-th summit has a reference summit within the anchor tolerance, and
\* none of its nearest reference summits is nearest at the col
CandidateOnly(k) ==
    /\ \E i \in RefPlacesOf : NearestAnchor(i, topo.source[k])
    /\ \A i \in RefPlacesOf :
           NearestAnchor(i, topo.source[k]) => ~NearestSecondary(i, topo.source[k])

\* C23: in spatial mode a summit whose nearest reference summit does not
\* agree at the col is written with its Notes unchanged and the run does
\* not fail, whatever summits were processed before it.
C23_CandidateNotesUnchanged ==
    topo.pc # "idle" =>
        /\ topo.pc # "crashed"
        /\ \A k \in Written :
               CandidateOnly(k) => topo.sink[k].Notes = topo.source[k].Notes

\* C24: in spatial mode no two summits of one run are written with the ref
\* of the same reference entry not flagged 'switch'.
C24_ReferenceGivenOnce ==
    \A k1, k2 \in Written : \A i \in RefPlacesOf :
        (/\ k1 # k2
         /\ "switch" \notin Range(topo.ref_list[i + 1].action)
         /\ topo.sink[k1].Reference = topo.ref_list[i + 1].ref)
            => topo.sink[k2].Reference # topo.ref_list[i + 1].ref

====
